---- MODULE Spec2Model ----
(***************************************************************************)
(* Model of the normalization and curation engine of Ai-Tools-Pipeline:    *)
(*   src/pipeline/silver_normalize.py  (bronze tables -> Silver Records)   *)
(*   src/pipeline/gold_dedupe.py       (Silver Records -> Gold Records)    *)
(*   src/pipeline/load_pg.py           (Gold Records -> table tools)       *)
(*                                                                         *)
(* Strings are TLA+ strings handled character by character (Len, SubSeq,   *)
(* \o), so that trimming, case folding, splitting and URL canonicalization *)
(* are computed as the Python code computes them.                          *)
(***************************************************************************)
EXTENDS Integers, Sequences, FiniteSets, TLC

VARIABLES
    bronze,        \* data/bronze/*.parquet: file stem -> [cols, rows]
    silver,        \* data/silver/*.parquet: file stem -> sequence of Silver Records
    gold,          \* data/gold/tools.parquet: whether it exists, and its Gold Records
    gold_df,       \* gold_dedupe.run: the concatenated frame df of the last run
    gold_groups,   \* gold_dedupe.run: the merge groups of the last run (indexes of df)
    log,           \* the last message logged by a stage, and its loguru level
    naText,        \* the text Series.astype(str) makes of a missing value
    cellType,      \* the Python type of a list cell as pd.read_parquet returns it
    call,          \* a helper function called on its own: its name and arguments
    ret,           \* whether that call has returned, and the value it returned
    stage_tools,   \* Postgres table stage_tools: the rows of the last load
    tools,         \* Postgres table tools, rows in insertion order
    loaded         \* every row ever staged by a load (history)

vars == <<bronze, silver, gold, gold_df, gold_groups, log, naText, cellType, call, ret, stage_tools, tools, loaded>>

(***************************************************************************)
(* Values                                                                  *)
(***************************************************************************)
\* None / NaN.  No input string contains "<", so no string equals it.
NULL == "<null>"

IsStr(v) == v # NULL

(***************************************************************************)
(* Python str primitives                                                   *)
(***************************************************************************)
Char(s, i) == SubSeq(s, i, i)

\* Code-point order of the characters the model's strings are made of.
CodeOrder == " #,-./0123456789:;=?ABCDEFGHIJKLMNOPQRSTUVWXYZ_abcdefghijklmnopqrstuvwxyz|"

OrdOf == [c \in {Char(CodeOrder, i) : i \in 1..Len(CodeOrder)} |->
             CHOOSE i \in 1..Len(CodeOrder) : Char(CodeOrder, i) = c]

Ord(c) == OrdOf[c]

UpperCase == "ABCDEFGHIJKLMNOPQRSTUVWXYZ"

LowerCase == "abcdefghijklmnopqrstuvwxyz"

\* str.isspace for one character
Whitespace == {" ", "\t", "\n", "\r"}

\* The lowercase of each uppercase letter.
LowerOf == [c \in {Char(UpperCase, i) : i \in 1..Len(UpperCase)} |->
               Char(LowerCase, CHOOSE i \in 1..Len(UpperCase) : Char(UpperCase, i) = c)]

LowerChar(c) == IF c \in DOMAIN LowerOf THEN LowerOf[c] ELSE c

RECURSIVE Lower(_)
\* str.lower
Lower(s) == IF s = "" THEN "" ELSE LowerChar(Char(s, 1)) \o Lower(Tail(s))

RECURSIVE LStripChars(_, _)
\* str.lstrip(chars)
LStripChars(s, chars) ==
    IF s # "" /\ Char(s, 1) \in chars THEN LStripChars(Tail(s), chars) ELSE s

RECURSIVE RStripChars(_, _)
\* str.rstrip(chars)
RStripChars(s, chars) ==
    IF s # "" /\ Char(s, Len(s)) \in chars
    THEN RStripChars(SubSeq(s, 1, Len(s) - 1), chars)
    ELSE s

\* str.strip(chars)
StripChars(s, chars) == RStripChars(LStripChars(s, chars), chars)

\* str.strip()
Strip(s) == StripChars(s, Whitespace)

\* s.startswith(p)
StartsWith(s, p) == Len(s) >= Len(p) /\ SubSeq(s, 1, Len(p)) = p

RECURSIVE Replace(_, _, _)
\* str.replace(old, new): every non-overlapping occurrence, left to right
Replace(s, old, new) ==
    IF s = "" THEN ""
    ELSE IF StartsWith(s, old)
         THEN new \o Replace(SubSeq(s, Len(old) + 1, Len(s)), old, new)
         ELSE Char(s, 1) \o Replace(Tail(s), old, new)

RECURSIVE CutFrom(_, _)
\* re.sub(c + ".*$", "", s) on a one-line string: drop from the first c on
CutFrom(s, c) ==
    IF s = "" THEN ""
    ELSE IF Char(s, 1) = c THEN ""
         ELSE Char(s, 1) \o CutFrom(Tail(s), c)

RECURSIVE CollapseWs(_)
\* re.sub(r"\s+", " ", s)
CollapseWs(s) ==
    IF s = "" THEN ""
    ELSE IF Char(s, 1) \in Whitespace
         THEN " " \o CollapseWs(LStripChars(s, Whitespace))
         ELSE Char(s, 1) \o CollapseWs(Tail(s))

RECURSIVE StrLess(_, _)
\* a < b for Python strings (lexicographic by code point)
StrLess(a, b) ==
    IF b = "" THEN FALSE
    ELSE IF a = "" THEN TRUE
    ELSE IF Char(a, 1) = Char(b, 1) THEN StrLess(Tail(a), Tail(b))
    ELSE Ord(Char(a, 1)) < Ord(Char(b, 1))

RECURSIVE Sorted(_)
\* sorted(S) for a set of strings
Sorted(S) ==
    IF S = {} THEN <<>>
    ELSE LET m == CHOOSE x \in S : \A y \in S \ {x} : StrLess(x, y)
         IN  <<m>> \o Sorted(S \ {m})

\* set(xs) for a list
ToSet(xs) == {xs[i] : i \in 1..Len(xs)}

RECURSIVE SplitChar(_, _)
\* str.split(c)
SplitChar(s, c) ==
    IF \A i \in 1..Len(s) : Char(s, i) # c THEN <<s>>
    ELSE LET k == CHOOSE i \in 1..Len(s) :
                      Char(s, i) = c /\ \A j \in 1..(i - 1) : Char(s, j) # c
         IN  <<SubSeq(s, 1, k - 1)>> \o SplitChar(SubSeq(s, k + 1, Len(s)), c)

RECURSIVE Join(_, _)
\* sep.join(xs)
Join(xs, sep) ==
    IF xs = <<>> THEN ""
    ELSE IF Len(xs) = 1 THEN xs[1]
    ELSE xs[1] \o sep \o Join(Tail(xs), sep)

\* k in c for strings: k occurs in c as a substring
Contains(c, k) ==
    \E i \in 1..(Len(c) - Len(k) + 1) : SubSeq(c, i, i + Len(k) - 1) = k

(***************************************************************************)
(* silver_normalize.py: configuration                                      *)
(***************************************************************************)
ALIASES == [
    name        |-> <<"name", "tool", "title", "tool_name">>,
    url         |-> <<"url", "website", "link", "homepage">>,
    description |-> <<"description", "desc", "summary", "about", "bio">>,
    tags        |-> <<"tags", "keywords", "labels">>,
    categories  |-> <<"category", "categories", "group", "section">>,
    has_api     |-> <<"api", "has_api", "provides_api">>,
    has_free    |-> <<"free", "has_free", "freemium">>
]

\* The dict in its insertion order.
_CANON_MAP == <<
    [canon |-> "image generation", syns |-> {"art", "graphics", "image", "image generator", "image tool", "t2i", "text-to-image"}],
    [canon |-> "image editing", syns |-> {"background remover", "image edit", "image enhancer", "photo", "removal", "upscaler"}],
    [canon |-> "writing", syns |-> {"blog", "content writing", "copywriting", "seo writing", "story"}],
    [canon |-> "chatbot", syns |-> {"assistant", "chat", "conversational ai"}],
    [canon |-> "summarization", syns |-> {"summarizer", "summary"}],
    [canon |-> "code", syns |-> {"code generation", "coding", "developer", "programming"}],
    [canon |-> "code assistant", syns |-> {"code assistant", "copilot", "pair programmer"}],
    [canon |-> "audio", syns |-> {"music", "speech", "stt", "tts", "voice"}],
    [canon |-> "video", syns |-> {"video editing", "video generator"}],
    [canon |-> "search", syns |-> {"research", "web search"}],
    [canon |-> "agents", syns |-> {"agent", "automation", "autonomous agent", "workflow"}]
>>

\* tok in _CANON_MAP: the canonical category names
CanonNames == {_CANON_MAP[i].canon : i \in 1..Len(_CANON_MAP)}

\* _REVERSE.get(tok): the dict comprehension keeps the last canonical category
\* that lists the synonym; NULL when none does.
_REVERSE(tok) ==
    LET hits == {i \in 1..Len(_CANON_MAP) : tok \in _CANON_MAP[i].syns}
    IN  IF hits = {} THEN NULL
        ELSE _CANON_MAP[CHOOSE i \in hits : \A j \in hits : j <= i].canon

\* _SPLIT: the length of the delimiter matched at the start of s, 0 when none.
\* Alternatives in the order of the pattern; " and " is matched ignoring case.
\* The pattern's bullet glyphs (U+00B7, U+2022) are outside the characters of
\* the model's strings (CodeOrder), so their alternatives never match here.
_SPLIT(s) ==
    IF s = "" THEN 0
    ELSE IF Char(s, 1) \in {",", "/", "|", ";"} THEN 1
    ELSE IF Len(s) >= 5 /\ Lower(SubSeq(s, 1, 5)) = " and " THEN 5
    ELSE 0

RECURSIVE SplitAcc(_, _)
SplitAcc(s, cur) ==
    IF s = "" THEN <<cur>>
    ELSE LET d == _SPLIT(s)
         IN  IF d > 0
             THEN <<cur>> \o SplitAcc(SubSeq(s, d + 1, Len(s)), "")
             ELSE SplitAcc(Tail(s), cur \o Char(s, 1))

\* _SPLIT.split(raw)
RegexSplit(raw) == SplitAcc(raw, "")

(***************************************************************************)
(* silver_normalize.py: category normalization                             *)
(***************************************************************************)
_clean_token(s) == StripChars(CollapseWs(Lower(Strip(s))), {" ", "-", "_"})

RECURSIVE CleanTokens(_)
\* the non-empty cleaned tokens of a list of parts, in order
CleanTokens(parts) ==
    IF parts = <<>> THEN <<>>
    ELSE LET tok == _clean_token(parts[1])
         IN  (IF tok = "" THEN <<>> ELSE <<tok>>) \o CleanTokens(Tail(parts))

\* _feed(raw): the tokens it classifies
_feed(raw) == IF raw = "" THEN <<>> ELSE CleanTokens(RegexSplit(raw))

\* Classify without the synonym lookup: only canonical names are recognized.
Classify_CanonOnly(tok) == IF tok \in CanonNames THEN tok ELSE NULL

\* The canonical category a cleaned token stands for, NULL when it is unknown.
Classify(tok) ==
    IF _REVERSE(tok) # NULL THEN _REVERSE(tok)
    ELSE IF tok \in CanonNames THEN tok
    ELSE NULL

normalize_categories_for_row(candidates, also_from_tags) ==
    LET toks == ToSet(_feed(Join(candidates, ", ")) \o _feed(Join(also_from_tags, ", ")))
        seen == {Classify(t) : t \in {x \in toks : Classify(x) # NULL}}
        unknown == {t \in toks : Classify(t) = NULL}
    IN  [cats_norm |-> Sorted(seen), unknown |-> Sorted(unknown)]

\* _norm_row without the "uncategorized" fallback.
_norm_row_NoFallback(cats_raw, tags_raw) ==
    LET r == normalize_categories_for_row(cats_raw, tags_raw)
    IN  [categories |-> r.cats_norm,
         tags       |-> Sorted(ToSet(tags_raw \o r.unknown))]

\* _norm_row that keeps the source's tags only, without the unknown tokens.
_norm_row_DropUnknown(cats_raw, tags_raw) ==
    LET r == normalize_categories_for_row(cats_raw, tags_raw)
    IN  [categories |-> IF r.cats_norm = <<>> THEN <<"uncategorized">> ELSE r.cats_norm,
         tags       |-> Sorted(ToSet(tags_raw))]

\* _norm_row: the (categories, tags) pair it stores in the row
_norm_row(cats_raw, tags_raw) ==
    LET r == normalize_categories_for_row(cats_raw, tags_raw)
    IN  [categories |-> IF r.cats_norm = <<>> THEN <<"uncategorized">> ELSE r.cats_norm,
         tags       |-> Sorted(ToSet(tags_raw \o r.unknown))]

(***************************************************************************)
(* silver_normalize.py: column mapping and field cleaning                  *)
(***************************************************************************)
RECURSIVE LowerKeys(_, _)
\* The keys of {c.lower(): c for c in colnames} in insertion order.
LowerKeys(colnames, have) ==
    IF colnames = <<>> THEN <<>>
    ELSE LET l == Lower(colnames[1])
         IN  (IF l \in have THEN <<>> ELSE <<l>>) \o LowerKeys(Tail(colnames), have \cup {l})

\* s[l] for that dict: the last column whose lowercase is l
LowerValue(colnames, l) ==
    colnames[CHOOSE i \in 1..Len(colnames) :
                 /\ Lower(colnames[i]) = l
                 /\ \A j \in (i + 1)..Len(colnames) : Lower(colnames[j]) # l]

\* The first index of xs that satisfies membership in S, 0 when none does.
FirstIn(xs, S) ==
    IF \E i \in 1..Len(xs) : xs[i] \in S
    THEN CHOOSE i \in 1..Len(xs) : xs[i] \in S /\ \A j \in 1..(i - 1) : xs[j] \notin S
    ELSE 0

\* pick without the exact match pass.
pick_ContainsOnly(colnames, keys) ==
    LET ks   == LowerKeys(colnames, {})
        hitK == FirstIn(keys, {k \in ToSet(keys) : \E c \in ToSet(ks) : Contains(c, k)})
    IN  IF hitK # 0
        THEN LowerValue(colnames, ks[FirstIn(ks, {c \in ToSet(ks) : Contains(c, keys[hitK])})])
        ELSE NULL

pick(colnames, keys) ==
    LET ks    == LowerKeys(colnames, {})
        exact == FirstIn(keys, ToSet(ks))
        \* contains pass: the first key some column contains, then the first such column
        hitK  == FirstIn(keys, {k \in ToSet(keys) : \E c \in ToSet(ks) : Contains(c, k)})
    IN  IF exact # 0 THEN LowerValue(colnames, keys[exact])
        ELSE IF hitK # 0
             THEN LowerValue(colnames,
                             ks[FirstIn(ks, {c \in ToSet(ks) : Contains(c, keys[hitK])})])
             ELSE NULL

\* canonical_url that leaves a trailing slash in place.
canonical_url_KeepSlash(u) ==
    IF ~IsStr(u) \/ Strip(u) = "" THEN NULL
    ELSE CutFrom(CutFrom(Replace(Strip(u), "http://", "https://"), "#"), "?")

canonical_url(u) ==
    IF ~IsStr(u) \/ Strip(u) = "" THEN NULL
    ELSE RStripChars(
             CutFrom(CutFrom(Replace(Strip(u), "http://", "https://"), "#"), "?"),
             {"/"})

\* StripAll that keeps the pieces that are empty once stripped.
StripAll_KeepBlank(parts) == [i \in 1..Len(parts) |-> Strip(parts[i])]

RECURSIVE StripAll(_)
\* [t.strip() for t in parts if t and t.strip()]
StripAll(parts) ==
    IF parts = <<>> THEN <<>>
    ELSE (IF Strip(parts[1]) = "" THEN <<>> ELSE <<Strip(parts[1])>>) \o StripAll(Tail(parts))

\* Python objects a cell or a list element can be: a kind and a value.
PyNone == [kind |-> "NoneType", val |-> 0]

\* float("nan"); the other floats of the model are written by their repr
PyNaN == [kind |-> "float", val |-> "nan"]

PyStr(s) == [kind |-> "str", val |-> s]

PyInt(n) == [kind |-> "int", val |-> n]

PyBool(b) == [kind |-> "bool", val |-> b]

PyList(xs) == [kind |-> "list", val |-> xs]

\* The object a table cell holds: a missing cell is None, any other a str.
PyOf(cell) == IF IsStr(cell) THEN PyStr(cell) ELSE PyNone

Digits == <<"0", "1", "2", "3", "4", "5", "6", "7", "8", "9">>

RECURSIVE IntStr(_)
\* str(n) of an int: decimal digits, "-" before a negative one
IntStr(n) ==
    IF n < 0 THEN "-" \o IntStr(0 - n)
    ELSE IF n < 10 THEN Digits[n + 1]
    ELSE IntStr(n \div 10) \o Digits[(n % 10) + 1]

\* str(i) of an object that is not a list
str(i) ==
    CASE i.kind = "str"      -> i.val
      [] i.kind = "NoneType" -> "None"
      [] i.kind = "float"    -> i.val
      [] i.kind = "int"      -> IntStr(i.val)
      [] i.kind = "bool"     -> IF i.val THEN "True" ELSE "False"

listify(x) ==
    IF x.kind = "NoneType" \/ (x.kind = "float" /\ x.val = "nan") THEN <<>>
    ELSE IF x.kind = "list"
         \* [s for s in (str(i).strip() for i in x) if s]
         THEN StripAll([i \in 1..Len(x.val) |-> str(x.val[i])])
         ELSE StripAll(SplitChar(str(x), ","))

\* .astype(str).str.lower().isin(["true", "1", "yes", "y"]); a missing cell
\* becomes "nan", "None" or stays missing, none of which is in the list
Truthy(x) == IsStr(x) /\ Lower(x) \in {"true", "1", "yes", "y"}

\* Public suffixes of the hosts the model's URLs use.
PublicSuffixes == {"com", "io", "org"}

\* tldextract.extract(u).registered_domain: the label before the public suffix
\* plus the suffix, "" when the host has no public suffix.
registered_domain(u) ==
    LET rest   == IF Contains(u, "://")
                  THEN LET k == CHOOSE i \in 1..Len(u) :
                                    /\ SubSeq(u, i, i + 2) = "://"
                                    /\ \A j \in 1..(i - 1) : SubSeq(u, j, j + 2) # "://"
                       IN  SubSeq(u, k + 3, Len(u))
                  ELSE u
        host   == CutFrom(CutFrom(CutFrom(CutFrom(rest, "/"), "?"), "#"), ":")
        labels == SplitChar(host, ".")
        n      == Len(labels)
    IN  IF n >= 2 /\ labels[n] \in PublicSuffixes /\ labels[n - 1] # ""
        THEN labels[n - 1] \o "." \o labels[n]
        ELSE ""

\* lambda u: tldextract.extract(u).registered_domain if u else None
Domain(u) == IF ~IsStr(u) \/ u = "" THEN NULL ELSE registered_domain(u)

(***************************************************************************)
(* silver_normalize.py: normalize_one and run                              *)
(***************************************************************************)
\* [a.lower() for a in v] for every field's aliases v
LowerAliases ==
    [k \in DOMAIN ALIASES |-> [i \in 1..Len(ALIASES[k]) |-> Lower(ALIASES[k][i])]]

\* m of normalize_one: the column picked for each canonical field, or NULL
Mapping(cols) == [k \in DOMAIN ALIASES |-> pick(cols, LowerAliases[k])]

\* The cell a row holds for field k; None when no column was picked.
Cell(m, row, k) == IF m[k] = NULL THEN NULL ELSE row[m[k]]

\* .astype(str).str.strip() of a name or description cell.  astype(str) turns
\* a missing value into text: "None" for a None, "nan" for a NaN (naText).
StrStrip(x) == IF IsStr(x) THEN Strip(x) ELSE Strip(naText)

\* One row of `out` before the rows without a name are dropped.
NormalizeRow(m, row, source_name) ==
    LET url == canonical_url(Cell(m, row, "url"))
        nr  == _norm_row(listify(PyOf(Cell(m, row, "categories"))),
                         listify(PyOf(Cell(m, row, "tags"))))
    IN  [name        |-> StrStrip(Cell(m, row, "name")),
         url         |-> url,
         description |-> StrStrip(Cell(m, row, "description")),
         tags        |-> nr.tags,
         categories  |-> nr.categories,
         has_api     |-> Truthy(Cell(m, row, "has_api")),
         has_free    |-> Truthy(Cell(m, row, "has_free")),
         domain      |-> Domain(url),
         source      |-> source_name]

RECURSIVE DropNaName(_)
\* out.dropna(subset=["name"]).reset_index(drop=True)
DropNaName(recs) ==
    IF recs = <<>> THEN <<>>
    ELSE (IF recs[1].name = NULL THEN <<>> ELSE <<recs[1]>>) \o DropNaName(Tail(recs))

\* `out` keeps df's rows once a picked column is assigned to it; with no
\* column picked at all every assignment is a scalar and `out` has no rows.
normalize_one(df, source_name) ==
    LET m == Mapping(df.cols)
    IN  IF \A k \in DOMAIN m : m[k] = NULL THEN <<>>
        ELSE DropNaName([i \in 1..Len(df.rows) |-> NormalizeRow(m, df.rows[i], source_name)])

\* silver_normalize.run: every bronze file is normalized and written under
\* the same file name; Silver files of other names stay as they are.
SilverRun ==
    /\ silver' = [f \in (DOMAIN silver) \cup (DOMAIN bronze) |->
                     IF f \in DOMAIN bronze THEN normalize_one(bronze[f], f)
                     ELSE silver[f]]
    /\ log' = [level |-> "SUCCESS", msg |-> "Silver complete."]
    /\ UNCHANGED <<bronze, gold, gold_df, gold_groups, naText, cellType, call, ret, stage_tools, tools, loaded>>

\* Source tables of the runs: two versions of a.parquet, one of b.parquet.
TableA1 == [cols |-> <<"name", "url", "description", "tags", "categories", "has_api", "has_free">>,
            rows |-> <<[name |-> "Tool", url |-> "http://example.com/page?x=1#top",
                        description |-> "short", tags |-> "x", categories |-> "chat",
                        has_api |-> "yes", has_free |-> "no"]>>]

TableA2 == [cols |-> TableA1.cols,
            rows |-> <<[name |-> "Tool X", url |-> "https://example.com/page/",
                        description |-> "longer text", tags |-> "y, x",
                        categories |-> "blog", has_api |-> "no", has_free |-> "yes"]>>]

TableB == [cols |-> TableA1.cols,
           rows |-> <<[name |-> "Tool Y", url |-> "https://b.io", description |-> "other",
                       tags |-> "x", categories |-> "zzz", has_api |-> "1",
                       has_free |-> "true"]>>]

\* Listings of the load runs: a site without public suffix, a link that is
\* only a fragment, and two listings of one site with different flags.
LoadListings == {
    [name |-> "Tool", url |-> "https://localhost/", description |-> "d", tags |-> "x",
     categories |-> "chat", has_api |-> "no", has_free |-> "no"],
    [name |-> "Tool", url |-> "#top", description |-> "", tags |-> "y",
     categories |-> "chat", has_api |-> "yes", has_free |-> "no"],
    [name |-> "Tool B", url |-> "https://b.io", description |-> "d", tags |-> "x, y",
     categories |-> "blog", has_api |-> "yes", has_free |-> "no"],
    [name |-> "B", url |-> "https://b.io/", description |-> "", tags |-> "",
     categories |-> "", has_api |-> "no", has_free |-> "yes"]
}

\* What data/bronze holds before a load: one table of one listing.
LoadTables ==
    {[f \in {"a"} |-> [cols |-> TableA1.cols, rows |-> <<r>>]] : r \in LoadListings}

\* What data/bronze can hold: any of a.parquet and b.parquet, or nothing.
RunTables ==
    {t \in UNION {[fs -> {TableA1, TableA2, TableB}] : fs \in SUBSET {"a", "b"}} :
        \A f \in DOMAIN t : t[f] = TableB <=> f = "b"}

(***************************************************************************)
(* gold_dedupe.py                                                          *)
(***************************************************************************)
RECURSIVE Ascending(_)
\* The indexes of a set in row order.
Ascending(S) ==
    IF S = {} THEN <<>>
    ELSE LET m == CHOOSE x \in S : \A y \in S : x <= y
         IN  <<m>> \o Ascending(S \ {m})

\* isinstance(v, list) for a cell of a list column of a frame pd.read_parquet
\* returned.  The parquet engine decides the type, for every cell alike:
\* pyarrow hands list cells back as numpy arrays, fastparquet (which stores
\* them as JSON) as Python lists.
IsListCell(v) == cellType = "list"

RECURSIVE Extend(_)
\* items.extend(...) over every list cell of the series
Extend(series_of_lists) ==
    IF series_of_lists = <<>> THEN {}
    ELSE (IF IsListCell(series_of_lists[1])
          THEN {x \in ToSet(series_of_lists[1]) : IsStr(x) /\ Strip(x) # ""}
          ELSE {}) \cup Extend(Tail(series_of_lists))

_flatten_unique(series_of_lists) == Sorted(Extend(series_of_lists))

RECURSIVE NonNull(_)
\* series.dropna()
NonNull(series) ==
    IF series = <<>> THEN <<>>
    ELSE (IF series[1] = NULL THEN <<>> ELSE <<series[1]>>) \o NonNull(Tail(series))

_first_non_null(series) ==
    IF NonNull(series) = <<>> THEN NULL ELSE NonNull(series)[1]

RECURSIVE NonEmptyStrs(_)
\* [s for s in series if isinstance(s, str) and s.strip()]
NonEmptyStrs(series) ==
    IF series = <<>> THEN <<>>
    ELSE (IF IsStr(series[1]) /\ Strip(series[1]) # "" THEN <<series[1]>> ELSE <<>>)
         \o NonEmptyStrs(Tail(series))

\* max(candidates, key=len): the first of the longest
MaxByLen(candidates) ==
    candidates[CHOOSE i \in 1..Len(candidates) :
                   /\ \A j \in 1..Len(candidates) : Len(candidates[j]) <= Len(candidates[i])
                   /\ \A j \in 1..(i - 1) : Len(candidates[j]) < Len(candidates[i])]

_pick_longest_str(series) ==
    IF NonEmptyStrs(series) # <<>> THEN MaxByLen(NonEmptyStrs(series))
    ELSE _first_non_null(series)

\* _agg_group that takes the flags of the group's first row.
_agg_group_FirstFlags(g) ==
    [name        |-> _pick_longest_str([i \in 1..Len(g) |-> g[i].name]),
     url         |-> _first_non_null([i \in 1..Len(g) |-> g[i].url]),
     description |-> _pick_longest_str([i \in 1..Len(g) |-> g[i].description]),
     tags        |-> _flatten_unique([i \in 1..Len(g) |-> g[i].tags]),
     categories  |-> _flatten_unique([i \in 1..Len(g) |-> g[i].categories]),
     has_api     |-> g[1].has_api,
     has_free    |-> g[1].has_free,
     domain      |-> _first_non_null([i \in 1..Len(g) |-> g[i].domain])]

\* g is the group's rows in frame order
_agg_group(g) ==
    [name        |-> _pick_longest_str([i \in 1..Len(g) |-> g[i].name]),
     url         |-> _first_non_null([i \in 1..Len(g) |-> g[i].url]),
     description |-> _pick_longest_str([i \in 1..Len(g) |-> g[i].description]),
     tags        |-> _flatten_unique([i \in 1..Len(g) |-> g[i].tags]),
     categories  |-> _flatten_unique([i \in 1..Len(g) |-> g[i].categories]),
     has_api     |-> \E i \in 1..Len(g) : g[i].has_api,
     has_free    |-> \E i \in 1..Len(g) : g[i].has_free,
     domain      |-> _first_non_null([i \in 1..Len(g) |-> g[i].domain])]

\* with_url.groupby("url"): one group per url, groups in sorted key order,
\* each group the indexes of its rows in frame order.
GroupByUrl(df) ==
    LET with_url == {i \in 1..Len(df) : df[i].url # NULL}
        keys     == Sorted({df[i].url : i \in with_url})
    IN  [k \in 1..Len(keys) |-> Ascending({i \in with_url : df[i].url = keys[k]})]

\* (domain, name) keys in sorted order
PairLess(a, b) == StrLess(a[1], b[1]) \/ (a[1] = b[1] /\ StrLess(a[2], b[2]))

RECURSIVE SortedPairs(_)
SortedPairs(S) ==
    IF S = {} THEN <<>>
    ELSE LET m == CHOOSE x \in S : \A y \in S \ {x} : PairLess(x, y)
         IN  <<m>> \o SortedPairs(S \ {m})

\* no_url.groupby(["domain", "name"]): groupby leaves out (dropna=True) every
\* row with a missing value in a key column.
GroupByDomainName(df) ==
    LET no_url == {i \in 1..Len(df) : df[i].url = NULL}
        keyed  == {i \in no_url : df[i].domain # NULL /\ df[i].name # NULL}
        keys   == SortedPairs({<<df[i].domain, df[i].name>> : i \in keyed})
    IN  [k \in 1..Len(keys) |->
            Ascending({i \in keyed : <<df[i].domain, df[i].name>> = keys[k]})]

\* The merge groups of run(): g1's, then g2's when no_url is not empty.
MergeGroups(df) ==
    IF \E i \in 1..Len(df) : df[i].url = NULL
    THEN GroupByUrl(df) \o GroupByDomainName(df)
    ELSE GroupByUrl(df)

\* The rows of df a group holds.
GroupRows(df, grp) == [j \in 1..Len(grp) |-> df[grp[j]]]

RECURSIVE Concat(_, _)
\* pd.concat of the Silver files read in the order of `files`
Concat(dir, files) ==
    IF files = <<>> THEN <<>> ELSE dir[files[1]] \o Concat(dir, Tail(files))

\* The orders in which SILVER.glob may enumerate a set of files.
Enumerations(S) ==
    {o \in [1..Cardinality(S) -> S] : \A i, j \in 1..Cardinality(S) : o[i] = o[j] => i = j}

\* gold_dedupe.run with no Silver file: logs an error and returns.
GoldNoFiles ==
    /\ DOMAIN silver = {}
    /\ log' = [level |-> "ERROR", msg |-> "No silver files."]
    /\ UNCHANGED <<bronze, silver, gold, gold_df, gold_groups, naText, cellType, call, ret, stage_tools, tools, loaded>>

\* gold_dedupe.run: read every Silver file, group, merge, write tools.parquet.
GoldWrite ==
    /\ DOMAIN silver # {}
    /\ \E files \in Enumerations(DOMAIN silver) :
          LET df == Concat(silver, files)
              gs == MergeGroups(df)
          IN  /\ gold_df' = df
              /\ gold_groups' = gs
              /\ gold' = [exists |-> TRUE,
                          rows   |-> [k \in 1..Len(gs) |-> _agg_group(GroupRows(df, gs[k]))]]
    /\ log' = [level |-> "SUCCESS", msg |-> "Gold written."]
    /\ UNCHANGED <<bronze, silver, naText, cellType, call, ret, stage_tools, tools, loaded>>

GoldRun == GoldNoFiles \/ GoldWrite

Next == SilverRun \/ GoldRun

(***************************************************************************)
(* load_pg.py                                                              *)
(***************************************************************************)
RECURSIVE CleanItems(_)
\* the list comprehension of to_pg_array over a list of strings
CleanItems(xs) ==
    IF xs = <<>> THEN <<>>
    ELSE (IF Strip(xs[1]) = "" THEN <<>>
          ELSE <<Strip(Replace(Replace(Replace(Replace(xs[1], "{", " "), "}", " "),
                                       "\"", ""), ",", " "))>>)
         \o CleanItems(Tail(xs))

\* The Postgres text[] literal of a tags or categories cell.
to_pg_array(xs) ==
    IF ~IsListCell(xs) \/ xs = <<>> THEN "{}"
    ELSE "{" \o Join(CleanItems(xs), ",") \o "}"

\* The text[] value Postgres reads from a literal of unquoted elements.
PgArray(lit) ==
    IF lit = "{}" THEN <<>> ELSE SplitChar(SubSeq(lit, 2, Len(lit) - 1), ",")

\* A text cell through df.to_csv and COPY ... (format csv): None is written
\* as an empty field, and so is an empty string; COPY reads an unquoted
\* empty field as NULL.
CsvText(v) == IF v = NULL \/ v = "" THEN NULL ELSE v

\* The row of stage_tools that COPY makes of a Gold row.
StageRow(g) ==
    [name        |-> CsvText(g.name),
     url         |-> CsvText(g.url),
     description |-> CsvText(g.description),
     tags        |-> PgArray(to_pg_array(g.tags)),
     categories  |-> PgArray(to_pg_array(g.categories)),
     has_api     |-> g.has_api,
     has_free    |-> g.has_free,
     domain      |-> CsvText(g.domain)]

\* SQL coalesce(a, b) on text
Coalesce(a, b) == IF a # NULL THEN a ELSE b

\* SQL a = b on text: not true when either side is NULL
SqlEq(a, b) == a # NULL /\ b # NULL /\ a = b

\* SQL a is not distinct from b
NotDistinct(a, b) == a = b

\* "on conflict (url) do update set ...": the row t of tools after the
\* conflict with the proposed row `excluded`.  tags and categories of a staged
\* row are never NULL, so their coalesce is the staged value.
ConflictUpdate(t, excluded) ==
    [name        |-> excluded.name,
     url         |-> t.url,
     description |-> Coalesce(excluded.description, t.description),
     tags        |-> excluded.tags,
     categories  |-> excluded.categories,
     has_api     |-> t.has_api \/ excluded.has_api,
     has_free    |-> t.has_free \/ excluded.has_free,
     domain      |-> Coalesce(excluded.domain, t.domain)]

RECURSIVE UpsertByUrl(_, _)
\* Statement 1: insert every staged row with a url, or update the tools row
\* that holds that url.
UpsertByUrl(tbl, staged) ==
    IF staged = <<>> THEN tbl
    ELSE LET s == Head(staged)
         IN  IF s.url = NULL THEN UpsertByUrl(tbl, Tail(staged))
             ELSE IF \E i \in 1..Len(tbl) : SqlEq(tbl[i].url, s.url)
                  THEN LET i == CHOOSE i \in 1..Len(tbl) : SqlEq(tbl[i].url, s.url)
                       IN  UpsertByUrl([tbl EXCEPT ![i] = ConflictUpdate(tbl[i], s)],
                                       Tail(staged))
                  ELSE UpsertByUrl(Append(tbl, s), Tail(staged))

\* The join condition of statement 2: s has no url, and t has s's name and domain.
NameDomainMatch(t, s) ==
    s.url = NULL /\ SqlEq(t.name, s.name) /\ NotDistinct(t.domain, s.domain)

\* "update tools t set ... from stage_tools s where ...".  A Gold file holds
\* at most one row without url per (domain, name), so at most one s joins a t.
UpdateByNameDomain(tbl, staged) ==
    [i \in 1..Len(tbl) |->
        IF \E j \in 1..Len(staged) : NameDomainMatch(tbl[i], staged[j])
        THEN LET s == staged[CHOOSE j \in 1..Len(staged) : NameDomainMatch(tbl[i], staged[j])]
             IN  [tbl[i] EXCEPT !.description = Coalesce(s.description, @),
                                !.tags        = s.tags,
                                !.categories  = s.categories,
                                !.has_api     = @ \/ s.has_api,
                                !.has_free    = @ \/ s.has_free]
        ELSE tbl[i]]

RECURSIVE InsertMissing(_, _, _)
\* "insert into tools ... where s.url is null and not exists (...)": the
\* sub-select reads tools as it was before the statement (`before`).
InsertMissing(tbl, before, staged) ==
    IF staged = <<>> THEN tbl
    ELSE LET s == Head(staged)
         IN  IF s.url = NULL /\ ~\E i \in 1..Len(before) : NameDomainMatch(before[i], s)
             THEN InsertMissing(Append(tbl, [s EXCEPT !.url = NULL]), before, Tail(staged))
             ELSE InsertMissing(tbl, before, Tail(staged))

\* load_pg.run without a Gold file: raise SystemExit.
LoadNoGold ==
    /\ call.fn = "load"
    /\ ~gold.exists
    /\ log' = [level |-> "EXIT", msg |-> "Gold parquet not found"]
    /\ UNCHANGED <<bronze, silver, gold, gold_df, gold_groups, naText, cellType, call, ret,
                   stage_tools, tools, loaded>>

\* load_pg.run: stage the Gold rows, upsert by url, then update or insert the
\* rows without url by (name, domain).
LoadWrite ==
    /\ call.fn = "load"
    /\ gold.exists
    /\ LET staged == [i \in 1..Len(gold.rows) |-> StageRow(gold.rows[i])]
           t1     == UpsertByUrl(tools, staged)
           t2     == UpdateByNameDomain(t1, staged)
       IN  /\ stage_tools' = staged
           /\ tools' = InsertMissing(t2, t2, staged)
           /\ loaded' = loaded \cup ToSet(staged)
    /\ log' = [level |-> "SUCCESS", msg |-> "Load complete."]
    /\ UNCHANGED <<bronze, silver, gold, gold_df, gold_groups, naText, cellType, call, ret>>

LoadRun == LoadNoGold \/ LoadWrite

\* The contents data/bronze can take in the behaviours of a specification.
SourceSets == IF call.fn = "load" THEN LoadTables ELSE RunTables

\* data/bronze between two runs: ingestion writes tables, or tables are removed.
BronzeChange ==
    /\ bronze' \in SourceSets \ {bronze}
    /\ UNCHANGED <<silver, gold, gold_df, gold_groups, log, naText, cellType, call, ret,
                 stage_tools, tools, loaded>>

\* Runs of the stages with data/bronze changing between them.
NextRuns == BronzeChange \/ SilverRun \/ GoldRun

\* The same, each run of the stages followed or not by a load.
NextLoad == BronzeChange \/ SilverRun \/ GoldRun \/ LoadRun

(***************************************************************************)
(* Helper functions called on their own                                    *)
(***************************************************************************)
\* A value a call returned.
Returned(v) == [done |-> TRUE, value |-> v]

\* listify(x) called on the object x.
ListifyCall ==
    /\ call.fn = "listify"
    /\ ~ret.done
    /\ ret' = Returned(listify(call.x))
    /\ UNCHANGED <<bronze, silver, gold, gold_df, gold_groups, log, naText, cellType, call,
                 stage_tools, tools, loaded>>

NextListify == ListifyCall

\* pick(cols, [a.lower() for a in v]) called as normalize_one calls it for
\* one canonical field.
PickCall ==
    /\ call.fn = "pick"
    /\ ~ret.done
    /\ ret' = Returned(pick(call.colnames, LowerAliases[call.field]))
    /\ UNCHANGED <<bronze, silver, gold, gold_df, gold_groups, log, naText, cellType, call,
                   stage_tools, tools, loaded>>

NextPick == PickCall

(***************************************************************************)
(* Initial states: the bronze tables a run starts from                     *)
(***************************************************************************)
\* The longest URL body (after the scheme) drawn for the URL inputs.
MaxUrlLen == 3

\* The most rows, over all bronze files, drawn for the merge inputs.
MaxRows == 2

UrlChars == {"a", "/", "#", "?", " "}

RECURSIVE StringsUpTo(_)
\* Every string of at most n characters of UrlChars.
StringsUpTo(n) ==
    IF n = 0 THEN {""}
    ELSE LET shorter == StringsUpTo(n - 1)
         IN  shorter \cup {s \o c : s \in shorter, c \in UrlChars}

UrlInputs == {scheme \o body : scheme \in {"", "http://", "https://"},
                               body \in StringsUpTo(MaxUrlLen)}

FullCols == <<"name", "url", "description", "tags", "categories", "has_api", "has_free">>

\* A row of a table: its cells under the table's columns.
Row(cols, cells) == [c \in ToSet(cols) |-> cells[c]]

\* No helper call has returned.
NoReturn == [done |-> FALSE, value |-> <<>>]

\* Nothing written yet: no Silver file, no Gold file.
Fresh ==
    /\ silver = [f \in {} |-> <<>>]
    /\ gold = [exists |-> FALSE, rows |-> <<>>]
    /\ gold_df = <<>>
    /\ gold_groups = <<>>
    /\ log = [level |-> "", msg |-> ""]
    /\ naText \in {"nan", "None"}
    /\ cellType \in {"list", "ndarray"}
    /\ ret = NoReturn
    /\ stage_tools = <<>>
    /\ tools = <<>>
    /\ loaded = {}

\* One source table of one row whose url cell ranges over UrlInputs.
InitUrl ==
    /\ Fresh
    /\ call = [fn |-> "run"]
    /\ \E u \in UrlInputs :
          bronze = [f \in {"src"} |->
                       [cols |-> <<"name", "url">>,
                        rows |-> <<[name |-> "Tool", url |-> u]>>]]

NameCells == {NULL, "", "  ", " Tool "}

CatCells == {NULL, "AI Writing", "copywriting", "quantum-sensing",
             "Chat / Blog and x", "Writing, writing"}

TagCells == {NULL, "nlp", "TTS, b", "seo writing;_new_"}

\* One source table of one row, with or without a name column.
InitNorm ==
    /\ Fresh
    /\ call = [fn |-> "run"]
    /\ \E cols \in {FullCols, Tail(FullCols)},
          name \in NameCells, cats \in CatCells, tags \in TagCells,
          url \in {NULL, "https://x.io/"}, api \in {NULL, "Yes"} :
          bronze = [f \in {"src"} |->
                       [cols |-> cols,
                        rows |-> <<Row(cols, [name |-> name, url |-> url,
                                              description |-> " d ", tags |-> tags,
                                              categories |-> cats, has_api |-> api,
                                              has_free |-> "no"])>>]]

\* The raw urls of Scenario A and of one more site.
ScenarioA1 == "http://example.com/page?x=1#top"

ScenarioA2 == "https://example.com/page/"

OtherSite == "https://b.io"

\* Listings as sources give them: flags set, tags and categories given or not.
ListingP1 == [name |-> "Tool", description |-> "short", tags |-> "x",
              categories |-> "chat", has_api |-> "yes", has_free |-> "no"]

ListingP2 == [name |-> "Tool X", description |-> "longer text", tags |-> "y, x",
              categories |-> "blog", has_api |-> "no", has_free |-> "yes"]

ListingP3 == [name |-> "Tool", description |-> "", tags |-> NULL,
              categories |-> NULL, has_api |-> "no", has_free |-> "no"]

ListingP4 == [name |-> "Tool Y", description |-> "other", tags |-> "x",
              categories |-> "zzz", has_api |-> "1", has_free |-> "true"]

WithUrl(p, u) ==
    [name |-> p.name, url |-> u, description |-> p.description, tags |-> p.tags,
     categories |-> p.categories, has_api |-> p.has_api, has_free |-> p.has_free]

\* Rows that collide on their canonical url, rows that do not, rows without a link.
MergeRows == {
    WithUrl(ListingP1, ScenarioA1), WithUrl(ListingP2, ScenarioA2),
    WithUrl(ListingP3, ScenarioA2), WithUrl(ListingP3, ScenarioA1),
    WithUrl(ListingP4, OtherSite),  WithUrl(ListingP3, OtherSite),
    WithUrl(ListingP1, NULL),       WithUrl(ListingP3, NULL)
}

\* One or two source tables holding at most MaxRows rows between them.  No row
\* has a missing name or description, so naText plays no part and is fixed.
InitMerge ==
    /\ Fresh
    /\ naText = "None"
    /\ call = [fn |-> "run"]
    /\ \E n \in 1..MaxRows :
          \E rs \in [1..n -> MergeRows], k \in 1..n :
              bronze = [f \in (IF k = n THEN {"a"} ELSE {"a", "b"}) |->
                           [cols |-> FullCols,
                            rows |-> IF f = "a" THEN SubSeq(rs, 1, k)
                                     ELSE SubSeq(rs, k + 1, n)]]

\* The pipeline over URL inputs.
SpecUrl == InitUrl /\ [][Next]_vars

\* The pipeline over category, tag and name inputs.
SpecNorm == InitNorm /\ [][Next]_vars

\* The pipeline over tables with duplicate listings.
SpecMerge == InitMerge /\ [][Next]_vars

\* The most columns of a table pick is called on.
MaxCols == 3

\* Column names as sources write them: aliases of name and has_api in other
\* letter cases, names that contain an alias, and a name that matches nothing.
ColNames == {"Name", "TITLE", "Tool_Name", "Product Title", "price", "Has_API", "Rapid API"}

\* No table at all, and one call of pick for the field name or has_api.
InitPick ==
    /\ Fresh
    /\ naText = "nan"
    /\ cellType = "list"
    /\ bronze = [f \in {} |-> <<>>]
    /\ \E field \in {"name", "has_api"},
          cols \in UNION {[1..n -> ColNames] : n \in 0..MaxCols} :
          call = [fn |-> "pick", colnames |-> cols, field |-> field]

\* pick over tables of a few columns.
SpecPick == InitPick /\ [][NextPick]_vars

\* The longest list listify is called on.
MaxListLen == 3

\* Objects a list handed to listify holds.
ListElems == {PyStr(" a "), PyStr(""), PyStr("  "), PyStr("b,c"), PyNone, PyNaN, PyInt(7)}

\* Objects listify is called on that are not lists.
ScalarInputs == {PyNone, PyNaN, PyInt(0), PyInt(120), PyInt(-3), PyBool(TRUE),
                 PyStr(""), PyStr("  "), PyStr("a"), PyStr("b , a"), PyStr(",a,, b ,")}

ListInputs == {PyList(xs) : xs \in UNION {[1..n -> ListElems] : n \in 0..MaxListLen}}

\* No table at all, and one call of listify on a scalar or a list.
InitListify ==
    /\ Fresh
    /\ naText = "nan"
    /\ cellType = "list"
    /\ bronze = [f \in {} |-> <<>>]
    /\ \E x \in ScalarInputs \cup ListInputs : call = [fn |-> "listify", x |-> x]

\* listify over scalars and lists.
SpecListify == InitListify /\ [][NextListify]_vars

\* Runs that start from any content of data/bronze.
InitRuns ==
    /\ Fresh
    /\ naText = "None"
    /\ cellType = "list"
    /\ call = [fn |-> "runs"]
    /\ bronze \in RunTables

\* Loads into Postgres after runs over changing source tables.
InitLoad ==
    /\ Fresh
    /\ naText = "None"
    /\ cellType = "list"
    /\ call = [fn |-> "load"]
    /\ bronze \in LoadTables

SpecLoad == InitLoad /\ [][NextLoad]_vars

\* Repeated runs over changing source tables.
SpecRuns == InitRuns /\ [][NextRuns]_vars

Init == InitUrl \/ InitNorm \/ InitMerge

Spec == Init /\ [][Next]_vars

(***************************************************************************)
(* Properties                                                              *)
(***************************************************************************)
\* The cleaned tokens of a source row's categories and tags cells.
RawTokens(row) ==
    ToSet(_feed(Join(listify(PyOf(row.categories)), ", ")) \o _feed(Join(listify(PyOf(row.tags)), ", ")))

\* A list of strings in strictly ascending order: sorted, no duplicates.
StrictlySorted(xs) == \A i \in 1..(Len(xs) - 1) : StrLess(xs[i], xs[i + 1])

\* The Gold Records of the last run whose url is u.
GoldWithUrl(u) == {k \in 1..Len(gold.rows) : gold.rows[k].url = u}

\* The merge groups of the last run that hold row i of its frame.
GroupsOf(i) == {k \in 1..Len(gold_groups) : i \in ToSet(gold_groups[k])}

\* C1: canonical_url is idempotent: applied to the url of a Silver Record,
\* which is canonical_url of the source's url cell, it returns that url.
C1_Idempotent ==
    \A f \in DOMAIN silver : \A i \in 1..Len(silver[f]) :
        canonical_url(silver[f][i].url) = silver[f][i].url

\* C2: in a gold dedupe run every Silver Record read, with or without a url,
\* belongs to exactly one merge group.
C2_Partition ==
    gold.exists => \A i \in 1..Len(gold_df) : Cardinality(GroupsOf(i)) = 1

\* C3 as stated: a record whose only raw category is "AI Writing" or
\* "copywriting" (and that has no tags) gets categories == ["writing"].
C3_BothAreWriting ==
    \A f \in DOMAIN silver :
        (/\ Len(silver[f]) = 1
         /\ bronze[f].rows[1].categories \in {"AI Writing", "copywriting"}
         /\ bronze[f].rows[1].tags = NULL)
        => silver[f][1].categories = <<"writing">>

\* C3 amended: "copywriting" is a synonym of "writing", so "writing" is among
\* the record's categories and is the only one when the tags match nothing;
\* "AI Writing" cleans to "ai writing", which the taxonomy does not list: the
\* categories are those the tags alone give (["uncategorized"] when they give
\* none) and "ai writing" is among the record's tags.
C3_OnlyCopywritingIsWriting ==
    \A f \in DOMAIN silver :
        Len(silver[f]) = 1 =>
            LET row  == bronze[f].rows[1]
                rec  == silver[f][1]
                hint == {Classify(t) : t \in ToSet(_feed(Join(listify(PyOf(row.tags)), ", ")))}
                            \ {NULL}
            IN  /\ row.categories = "copywriting" =>
                       /\ "writing" \in ToSet(rec.categories)
                       /\ hint = {} => rec.categories = <<"writing">>
                /\ row.categories = "AI Writing" =>
                       /\ "ai writing" \in ToSet(rec.tags)
                       /\ hint = {} => rec.categories = <<"uncategorized">>
                       /\ hint # {} => ToSet(rec.categories) = hint

\* C3 witness: a row with raw category "AI Writing" and no tags was normalized.
C3_Witness ==
    \E f \in DOMAIN silver :
        /\ Len(silver[f]) = 1
        /\ bronze[f].rows[1].categories = "AI Writing"
        /\ bronze[f].rows[1].tags = NULL
        /\ silver[f][1].categories = <<"uncategorized">>
        /\ silver[f][1].tags = <<"ai writing">>

\* C4: no record of the Silver output has a missing or an empty name.
C4_NoNamelessRecord ==
    \A f \in DOMAIN silver : \A i \in 1..Len(silver[f]) :
        silver[f][i].name # NULL /\ silver[f][i].name # ""

\* C5: the categories of a Silver Record are never empty: they are exactly
\* ["uncategorized"] when no token of the row's categories or tags matches the
\* taxonomy, and otherwise the sorted, duplicate-free list of the matched
\* canonical names, without "uncategorized".
C5_CategoriesNeverEmpty ==
    \A f \in DOMAIN silver : \A i \in 1..Len(silver[f]) :
        LET cats == silver[f][i].categories
        IN  /\ cats # <<>>
            /\ StrictlySorted(cats)
            /\ cats = <<"uncategorized">> \/ ToSet(cats) \subseteq CanonNames
            /\ Len(bronze[f].rows) = 1 =>
                   LET matched == {Classify(t) : t \in RawTokens(bronze[f].rows[1])} \ {NULL}
                   IN  IF matched = {} THEN cats = <<"uncategorized">>
                       ELSE ToSet(cats) = matched /\ "uncategorized" \notin ToSet(cats)

\* C5 witness: a row none of whose tokens matches the taxonomy was normalized
\* and got the sentinel category.
C5_Witness ==
    \E f \in DOMAIN silver :
        /\ Len(silver[f]) = 1
        /\ bronze[f].rows[1].categories = "quantum-sensing"
        /\ bronze[f].rows[1].tags = "nlp"
        /\ silver[f][1].categories = <<"uncategorized">>

\* C6: every cleaned token of a row's categories or tags that matches neither a
\* synonym nor a canonical name is among the record's tags; raw category
\* "quantum-sensing" alone gives categories == ["uncategorized"] with
\* "quantum-sensing" in tags.
C6_UnknownTokensKept ==
    \A f \in DOMAIN silver :
        Len(silver[f]) = 1 =>
            LET row == bronze[f].rows[1]
                rec == silver[f][1]
            IN  /\ \A t \in RawTokens(row) : Classify(t) = NULL => t \in ToSet(rec.tags)
                /\ (row.categories = "quantum-sensing" /\ row.tags = NULL) =>
                       /\ rec.categories = <<"uncategorized">>
                       /\ "quantum-sensing" \in ToSet(rec.tags)

\* C6 witness: an unknown category token and an unknown token split off a tag
\* both ended up in the record's tags.
C6_Witness ==
    \E f \in DOMAIN silver :
        /\ Len(silver[f]) = 1
        /\ bronze[f].rows[1].categories = "quantum-sensing"
        /\ bronze[f].rows[1].tags = "seo writing;_new_"
        /\ {"quantum-sensing", "new"} \subseteq ToSet(silver[f][1].tags)
        /\ silver[f][1].categories = <<"writing">>

\* C7: Silver Records with the same url are in one merge group, the only group
\* either is in; no two Gold Records share a non-null url; and source rows
\* with the urls of Scenario A end up in the one Gold Record whose url is
\* "https://example.com/page".
C7_OneGoldPerUrl ==
    gold.exists =>
        /\ \A i, j \in 1..Len(gold_df) :
               (gold_df[i].url # NULL /\ gold_df[i].url = gold_df[j].url) =>
                   GroupsOf(i) = GroupsOf(j) /\ Cardinality(GroupsOf(i)) = 1
        /\ \A k1, k2 \in 1..Len(gold.rows) :
               (gold.rows[k1].url # NULL /\ gold.rows[k1].url = gold.rows[k2].url) => k1 = k2
        /\ \A f \in DOMAIN bronze : \A i \in 1..Len(bronze[f].rows) :
               bronze[f].rows[i].url \in {ScenarioA1, ScenarioA2} =>
                   Cardinality(GoldWithUrl("https://example.com/page")) = 1

\* C7 witness: both urls of Scenario A were among the sources and their two
\* records were merged into one Gold Record, the only one.
C7_Witness ==
    /\ gold.exists
    /\ \E f, g \in DOMAIN bronze : \E i \in 1..Len(bronze[f].rows), j \in 1..Len(bronze[g].rows) :
           bronze[f].rows[i].url = ScenarioA1 /\ bronze[g].rows[j].url = ScenarioA2
    /\ Len(gold.rows) = 1
    /\ Len(gold_groups[1]) = 2
    /\ gold.rows[1].url = "https://example.com/page"

\* C8: a Gold Record's has_api is true exactly when some member of its group
\* has has_api true, and likewise has_free.
C8_FlagsAreOr ==
    gold.exists =>
        \A k \in 1..Len(gold_groups) :
            /\ gold.rows[k].has_api = (\E j \in ToSet(gold_groups[k]) : gold_df[j].has_api)
            /\ gold.rows[k].has_free = (\E j \in ToSet(gold_groups[k]) : gold_df[j].has_free)

\* C8 witness: a group of two whose first member has neither flag and whose
\* second has has_api, merged into a record with has_api and without has_free.
C8_Witness ==
    /\ gold.exists
    /\ \E k \in 1..Len(gold_groups) :
           /\ Len(gold_groups[k]) = 2
           /\ ~gold_df[gold_groups[k][1]].has_api
           /\ gold_df[gold_groups[k][2]].has_api
           /\ gold.rows[k].has_api
           /\ ~gold.rows[k].has_free

\* C9: every tag and every category of every member of a merge group is in the
\* Gold Record's tags and categories, which are the sorted union of the
\* members' values.
C9_UnionOfMembers ==
    gold.exists =>
        \A k \in 1..Len(gold_groups) :
            /\ \A j \in ToSet(gold_groups[k]) :
                   /\ ToSet(gold_df[j].tags) \subseteq ToSet(gold.rows[k].tags)
                   /\ ToSet(gold_df[j].categories) \subseteq ToSet(gold.rows[k].categories)
            /\ gold.rows[k].tags =
                   Sorted(UNION {ToSet(gold_df[j].tags) : j \in ToSet(gold_groups[k])})
            /\ gold.rows[k].categories =
                   Sorted(UNION {ToSet(gold_df[j].categories) : j \in ToSet(gold_groups[k])})

\* C10: the Gold Record of a group of one Silver Record has that record's
\* name, url, description, tags, categories, has_api, has_free and domain.
C10_SingletonIsIdentity ==
    gold.exists =>
        \A k \in 1..Len(gold_groups) :
            Len(gold_groups[k]) = 1 =>
                LET r == gold_df[gold_groups[k][1]]
                IN  gold.rows[k] =
                        [name |-> r.name, url |-> r.url, description |-> r.description,
                         tags |-> r.tags, categories |-> r.categories,
                         has_api |-> r.has_api, has_free |-> r.has_free,
                         domain |-> r.domain]


\* An order-preserving choice of positions: result is, in order, the non-empty
\* stripped texts of `parts`, and every part left out is blank.
KeptInOrder(result, parts) ==
    \E f \in [1..Len(result) -> 1..Len(parts)] :
        /\ \A j \in 1..(Len(result) - 1) : f[j] < f[j + 1]
        /\ \A j \in 1..Len(result) : result[j] = Strip(parts[f[j]])
        /\ \A i \in 1..Len(parts) :
               (\A j \in 1..Len(result) : f[j] # i) => Strip(parts[i]) = ""

\* C11: listify returns a sequence for every input (None, NaN, a list of
\* arbitrary objects, a string, another scalar); no element of it is empty or
\* all whitespace; it is empty for None and NaN; for a list it is the stripped
\* texts of the elements in the list's order, for a string the stripped
\* comma-separated pieces in the string's order.
C11_ListifyTotal ==
    (call.fn = "listify" /\ ret.done) =>
        LET x == call.x
            r == ret.value
        IN  /\ r \in Seq(STRING)
            /\ \A j \in 1..Len(r) : r[j] # "" /\ Strip(r[j]) = r[j]
            /\ (x.kind = "NoneType" \/ x = PyNaN) => r = <<>>
            /\ x.kind = "list" =>
                   KeptInOrder(r, [i \in 1..Len(x.val) |-> str(x.val[i])])
            /\ x.kind \in {"str", "int", "bool"} =>
                   KeptInOrder(r, SplitChar(str(x), ","))

\* C11 witness: listify has returned, in the list's order, the texts of a
\* padded string and of a None from a list that held a blank string between them.
C11_Witness ==
    /\ call.fn = "listify"
    /\ ret.done
    /\ call.x = PyList(<<PyStr(" a "), PyStr("  "), PyNone>>)
    /\ ret.value = <<"a", "None">>

\* C12: a stage that finds no input table writes nothing, leaves the output
\* of earlier runs as it is, and reports an error, not a success.
C12_EmptyInputIsAnError ==
    [][/\ (SilverRun /\ DOMAIN bronze = {}) =>
              (silver' = silver /\ log'.level = "ERROR")
       /\ (GoldRun /\ DOMAIN silver = {}) =>
              (gold' = gold /\ log'.level = "ERROR")]_vars

\* Two rows (of tools or staged) have the same key: the same url when either
\* has one, the same (name, domain) when neither has.
SameKey(a, b) ==
    IF a.url # NULL \/ b.url # NULL THEN a.url = b.url
    ELSE a.name = b.name /\ a.domain = b.domain

\* C13: after any sequence of loads, has_api and has_free of a tools row are
\* the OR of those flags over every Gold row loaded for the row's key (so a
\* flag once true stays true), and no two tools rows have the same key.
C13_FlagsAccumulatePerKey ==
    /\ \A i \in 1..Len(tools) :
           LET mine == {g \in loaded : SameKey(g, tools[i])}
           IN  /\ tools[i].has_api = (\E g \in mine : g.has_api)
               /\ tools[i].has_free = (\E g \in mine : g.has_free)
    /\ \A i, j \in 1..Len(tools) : SameKey(tools[i], tools[j]) => i = j

\* The positions of vals that hold a string with something besides whitespace.
NonEmptyAt(vals) == {j \in 1..Len(vals) : vals[j] # NULL /\ Strip(vals[j]) # ""}

\* out is the longest of the non-empty values, the earliest of the longest.
IsEarliestLongest(out, vals) ==
    \E j \in NonEmptyAt(vals) :
        /\ out = vals[j]
        /\ \A i \in NonEmptyAt(vals) : Len(vals[i]) <= Len(vals[j])
        /\ \A i \in NonEmptyAt(vals) : i < j => Len(vals[i]) < Len(vals[j])

\* out is the first value that is not null, or null when there is none.
IsFirstNonNull(out, vals) ==
    IF \A j \in 1..Len(vals) : vals[j] = NULL THEN out = NULL
    ELSE \E j \in 1..Len(vals) :
             out = vals[j] /\ vals[j] # NULL /\ \A i \in 1..(j - 1) : vals[i] = NULL

\* C14: in every merge group the Gold name is the longest non-empty name of
\* the members, the earliest member winning among the longest, and the first
\* non-null name when none is non-empty; the Gold description follows the
\* same longest, earliest rule and is null when every member's description is
\* empty.
C14_LongestNameAndDescription ==
    gold.exists =>
        \A k \in 1..Len(gold_groups) :
            LET names == [j \in 1..Len(gold_groups[k]) |-> gold_df[gold_groups[k][j]].name]
                descs == [j \in 1..Len(gold_groups[k]) |->
                              gold_df[gold_groups[k][j]].description]
            IN  /\ IF NonEmptyAt(names) # {}
                   THEN IsEarliestLongest(gold.rows[k].name, names)
                   ELSE IsFirstNonNull(gold.rows[k].name, names)
                /\ IF NonEmptyAt(descs) # {}
                   THEN IsEarliestLongest(gold.rows[k].description, descs)
                   ELSE gold.rows[k].description = NULL

\* The position in keys of the first alias some column equals, letter case
\* aside; 0 if there is none.
FirstEqual(colnames, keys) ==
    FirstIn(keys, {k \in ToSet(keys) : \E i \in 1..Len(colnames) : Lower(colnames[i]) = k})

\* The position in keys of the first alias some column contains, letter case
\* aside; 0 if there is none.
FirstContained(colnames, keys) ==
    FirstIn(keys, {k \in ToSet(keys) :
                      \E i \in 1..Len(colnames) : Contains(Lower(colnames[i]), k)})

SilverIsCurrent ==
    /\ DOMAIN bronze # {}
    /\ \A f \in DOMAIN bronze :
           f \in DOMAIN silver /\ silver[f] = normalize_one(bronze[f], f)

\* The Gold Records the two stages make of the source tables alone, for each
\* order in which the files can be enumerated.
GoldOfSources(tables) ==
    {LET df == Concat([f \in DOMAIN tables |-> normalize_one(tables[f], f)], files)
         gs == MergeGroups(df)
     IN  [k \in 1..Len(gs) |-> _agg_group(GroupRows(df, gs[k]))] :
     files \in Enumerations(DOMAIN tables)}

\* C16: whatever runs came before, the Gold file written by a run of the
\* silver stage and then the gold stage is what those stages make of that
\* run's source tables alone; files written by earlier runs add nothing.
C16_GoldOfLatestSourcesOnly ==
    [][(GoldWrite /\ SilverIsCurrent) => gold'.rows \in GoldOfSources(bronze)]_vars

====
